---- MODULE Spec2Model ----
(***************************************************************************)
(* Model of mle_logging/utils/comms.py: the console reporter of the        *)
(* experiment logger.  Every entry point (print_welcome, print_startup,    *)
(* print_update, print_reload, print_storage) is one action that builds a  *)
(* renderable (a rich Table or Panel) from its arguments and writes at     *)
(* most one item to the terminal.  The only module-level state is          *)
(* console_width.                                                          *)
(***************************************************************************)
EXTENDS Integers, Sequences, FiniteSets, TLC

VARIABLES
    console_width,  \* module global, comms.py line 11
    pc,             \* "idle": between calls; "returned": a call has just ended
    op,             \* name of the entry point that ran last ("none" when idle)
    args,           \* the arguments of that call
    raised,         \* TRUE iff that call ended by raising an exception
    heap,           \* the caller's mutable objects (lists, dicts) after the call
    renderable,     \* the local Table / Panel object the call built
    terminal        \* the items that call wrote to the terminal, in order

vars == <<console_width, pc, op, args, raised, heap, renderable, terminal>>

(***************************************************************************)
(* Bounds of the model.                                                    *)
(***************************************************************************)
MaxLen == 2         \* longest list of tracked names handed to a call

(***************************************************************************)
(* Python values.  Every value is a record of the same shape so that any   *)
(* two values can be compared: k is the Python type, n the numeric payload *)
(* (floats are counted in units of 10^-5), s the text payload and l the    *)
(* items of a list.                                                        *)
(***************************************************************************)
None == [k |-> "NoneType", n |-> 0, s |-> "", l |-> <<>>]
StrV(x) == [k |-> "str", n |-> 0, s |-> x, l |-> <<>>]
IntV(x) == [k |-> "int", n |-> x, s |-> "", l |-> <<>>]
FloatV(x) == [k |-> "float", n |-> x, s |-> "", l |-> <<>>]
BoolV(b) == [k |-> "bool", n |-> IF b THEN 1 ELSE 0, s |-> "", l |-> <<>>]
ListV(q) == [k |-> "list", n |-> 0, s |-> "", l |-> q]

\* Seq(S) restricted to the sequences of length at most n.
SeqUpTo(S, n) == UNION {[1..m -> S] : m \in 0..n}

RECURSIVE Digits(_, _)
\* The w low decimal digits of n, zero padded ("%0wd").
Digits(n, w) == IF w = 0 THEN "" ELSE Digits(n \div 10, w - 1) \o ToString(n % 10)

RECURSIVE FracStr(_, _)
\* The fractional digits of a float: trailing zeros dropped, one digit kept.
FracStr(r, w) == IF w > 1 /\ r % 10 = 0 THEN FracStr(r \div 10, w - 1) ELSE Digits(r, w)

\* str() of a non-negative float that is zero or at least 10^-4 (the values
\* below 10^-4 print in exponent notation and are not drawn by the model).
float_str(n) == ToString(n \div 100000) \o "." \o FracStr(n % 100000, 5)

RECURSIVE list_items(_)
list_items(q) == IF q = <<>> THEN ""
                 ELSE "'" \o Head(q) \o "'" \o (IF Len(q) > 1 THEN ", " ELSE "") \o list_items(Tail(q))

\* Python's str(v) / f"{v}".
str(v) == CASE v.k = "NoneType" -> "None"
            [] v.k = "str" -> v.s
            [] v.k = "int" -> ToString(v.n)
            [] v.k = "float" -> float_str(v.n)
            [] v.k = "bool" -> (IF v.n = 1 THEN "True" ELSE "False")
            [] v.k = "list" -> "[" \o list_items(v.l) \o "]"

(***************************************************************************)
(* rich: Console(width=...).print(obj, justify=...) and Console().log(..)  *)
(***************************************************************************)
ConsolePrint(width, obj, justify) ==
    [kind |-> "print", width |-> width, justify |-> justify, obj |-> obj]

ConsoleLog(text) == [kind |-> "log", text |-> text]

Panel(content) == [type |-> "Panel", content |-> content]

NoRenderable == [type |-> "none"]

\* Faulty variant: a table shared between calls, still holding an earlier row.
NewTable_Stale(show_header) ==
    [type |-> "Table", show_header |-> show_header, columns |-> <<>>,
     rows |-> << <<"---">> >>]

\* Table(show_header=..., row_styles=["none"], border_style="white",
\* box=box.SIMPLE): a table of its own for every call (lines 172-177,
\* 263-268).
NewTable(show_header) ==
    [type |-> "Table", show_header |-> show_header, columns |-> <<>>, rows |-> <<>>]

add_columns(table, cols) == [table EXCEPT !.columns = @ \o cols]
add_row(table, row) == [table EXCEPT !.rows = Append(@, row)]

Init ==
    /\ console_width = 100
    /\ pc = "idle"
    /\ op = "none"
    /\ args = <<>>
    /\ heap = <<>>
    /\ raised = FALSE
    /\ renderable = NoRenderable
    /\ terminal = <<>>

\* The call has ended: its locals and arguments are gone, the module global stays.
Return ==
    /\ pc = "returned"
    /\ pc' = "idle"
    /\ op' = "none"
    /\ args' = <<>>
    /\ heap' = <<>>
    /\ raised' = FALSE
    /\ renderable' = NoRenderable
    /\ terminal' = <<>>
    /\ UNCHANGED console_width

(***************************************************************************)
(* print_storage (lines 236-309)                                           *)
(***************************************************************************)
OptPath(p) == {None, StrV(p)}

StorageColumns ==
    << [header |-> "---", style |-> "red", width |-> 16, justify |-> "left"],
       [header |-> "---", style |-> "red", width |-> 64, justify |-> "left"] >>

RowIf(cond, label, path) == IF cond THEN << <<label, str(path)>> >> ELSE <<>>

\* Faulty variant: the print_first gate of lines 288 and 290 left out.
storage_rows_NoGate(a) ==
       RowIf(a.fig_path # None, ":envelope_with_arrow: - Figure", a.fig_path)
    \o RowIf(a.extra_path # None, ":envelope_with_arrow: - Extra", a.extra_path)
    \o RowIf(a.init_model_path # None, ":envelope_with_arrow: - Model", a.init_model_path)
    \o RowIf(a.final_model_path # None, ":envelope_with_arrow: - Model", a.final_model_path)
    \o RowIf(a.every_k_model_path # None, ":envelope_with_arrow: - Every-K", a.every_k_model_path)
    \o RowIf(a.top_k_model_path # None, ":envelope_with_arrow: - Top-K", a.top_k_model_path)

\* The add_row calls of lines 284-297, in order.
storage_rows(a) ==
       RowIf(a.fig_path # None, ":envelope_with_arrow: - Figure", a.fig_path)
    \o RowIf(a.extra_path # None, ":envelope_with_arrow: - Extra", a.extra_path)
    \o RowIf(a.init_model_path # None /\ a.print_first,
             ":envelope_with_arrow: - Model", a.init_model_path)
    \o RowIf(a.final_model_path # None /\ a.print_first,
             ":envelope_with_arrow: - Model", a.final_model_path)
    \o RowIf(a.every_k_model_path # None, ":envelope_with_arrow: - Every-K", a.every_k_model_path)
    \o RowIf(a.top_k_model_path # None, ":envelope_with_arrow: - Top-K", a.top_k_model_path)

\* Python's bool as a summand.
B2I(b) == IF b THEN 1 ELSE 0

\* Faulty variant: the print_first gate of lines 302-303 left out.
to_print_NoGate(a) ==
    ( B2I(a.fig_path # None)
    + B2I(a.extra_path # None)
    + B2I(a.init_model_path # None)
    + B2I(a.final_model_path # None)
    + B2I(a.every_k_model_path # None)
    + B2I(a.top_k_model_path # None) ) > 0

\* Lines 299-306.
to_print(a) ==
    ( B2I(a.fig_path # None)
    + B2I(a.extra_path # None)
    + B2I(a.init_model_path # None /\ a.print_first)
    + B2I(a.final_model_path # None /\ a.print_first)
    + B2I(a.every_k_model_path # None)
    + B2I(a.top_k_model_path # None) ) > 0

StorageArgs ==
    [fig_path : OptPath("figures/fig_1.png"),
     extra_path : OptPath("extra/extra_1.pkl"),
     init_model_path : OptPath("models/init/init.pt"),
     final_model_path : OptPath("models/final/final.pt"),
     every_k_model_path : OptPath("models/every_k/every_k_10.pt"),
     top_k_model_path : OptPath("models/top_k/top_k_0.pt"),
     print_first : BOOLEAN]

print_storage ==
    /\ pc = "idle"
    /\ \E a \in StorageArgs :
         LET table == [add_columns(NewTable(FALSE), StorageColumns)
                          EXCEPT !.rows = @ \o storage_rows(a)]
         IN /\ args' = a
            /\ renderable' = table
            /\ terminal' = IF to_print(a)
                           THEN <<ConsolePrint(console_width, table, "left")>>
                           ELSE <<>>
    /\ heap' = <<>>
    /\ pc' = "returned"
    /\ op' = "print_storage"
    /\ raised' = FALSE
    /\ UNCHANGED console_width

(***************************************************************************)
(* print_reload (lines 227-233)                                            *)
(***************************************************************************)
ExperimentDirs == {"experiments/", "logs/run_1/"}

print_reload ==
    /\ pc = "idle"
    /\ \E experiment_dir \in ExperimentDirs :
         /\ args' = [experiment_dir |-> experiment_dir]
         /\ terminal' = <<ConsoleLog("Reloaded log from " \o experiment_dir)>>
    /\ renderable' = NoRenderable
    /\ heap' = <<>>
    /\ pc' = "returned"
    /\ op' = "print_reload"
    /\ raised' = FALSE
    /\ UNCHANGED console_width

(***************************************************************************)
(* print_welcome (lines 14-46)                                             *)
(***************************************************************************)
\* welcome_ascii: the raw string of lines 16-22 split into lines; the first
\* line (index 0 in the source) is empty.
welcome_ascii ==
    << "",
       " __    __  __      ______  __      ______  ______",
       "/\\ \"-./  \\/\\ \\    /\\  ___\\/\\ \\    /\\  __ \\/\\  ___\\",
       "\\ \\ \\-./\\ \\ \\ \\___\\ \\  __\\  \\ \\___\\ \\ \\/\\ \\ \\ \\__ \\",
       " \\ \\_\\ \\ \\_\\ \\_____\\ \\_____\\ \\_____\\ \\_____\\ \\_____\\",
       "  \\/_/  \\/_/\\/_____/\\/_____/\\/_____/\\/_____/\\/_____/",
       "    " >>

\* datetime.datetime.now(): the local clock, read once per call.
Clock ==
    { [d |-> 3, m |-> 11, y |-> 2026, H |-> 9, M |-> 5, S |-> 0],
      [d |-> 31, m |-> 12, y |-> 1999, H |-> 23, M |-> 59, S |-> 59] }

\* strftime("%d/%m/%y %H:%M:%S")
strftime(t) ==
    Digits(t.d, 2) \o "/" \o Digits(t.m, 2) \o "/" \o Digits(t.y % 100, 2) \o " "
    \o Digits(t.H, 2) \o ":" \o Digits(t.M, 2) \o ":" \o Digits(t.S, 2)

\* __version__ of the package (mle_logging/_version.py).
Versions == {"0.0.4", "0.0.5"}

welcome_rows(now, version) ==
    << <<welcome_ascii[2], strftime(now)>>,
       <<welcome_ascii[3], "Logger v" \o version \o " :lock_with_ink_pen:">>,
       <<welcome_ascii[4],
         "  [link=https://twitter.com/RobertTLange]@RobertTLange[/link] :bird:">>,
       <<welcome_ascii[5],
         "  [link=https://github.com/RobertTLange/mle-logging/blob/main/examples/getting_started.ipynb]MLE-Log"
         \o " Docs[/link] [not italic]:notebook:[/]">>,
       <<welcome_ascii[6],
         "  [link=https://github.com/RobertTLange/mle-logging/]MLE-Log"
         \o " Repo[/link] [not italic]:pencil:[/]">> >>

print_welcome ==
    /\ pc = "idle"
    /\ \E now \in Clock, version \in Versions :
         LET grid == [type |-> "grid",
                      columns |-> <<[justify |-> "left"], [justify |-> "right"]>>,
                      rows |-> welcome_rows(now, version)]
             panel == Panel(grid)
         IN /\ args' = [now |-> now, version |-> version]
            /\ renderable' = panel
            /\ terminal' = <<ConsolePrint(console_width, panel, "default")>>
    /\ heap' = <<>>
    /\ pc' = "returned"
    /\ op' = "print_welcome"
    /\ raised' = FALSE
    /\ UNCHANGED console_width

(***************************************************************************)
(* print_startup (lines 49-153)                                            *)
(***************************************************************************)
TimeNames == {"time", "time_elapsed", "num_updates", "num_epochs"}
StatNames == {"train_loss", "test_loss"}

RECURSIVE join_items(_)
\* The loop of lines 90-93: the items, ", " between two of them.
join_items(q) == IF q = <<>> THEN ""
                 ELSE Head(q) \o (IF Len(q) > 1 THEN ", " ELSE "") \o join_items(Tail(q))

\* Lines 87-96.
format_content(title, value) ==
    IF value.k = "list"
    THEN "[b]" \o title \o "[/b]: " \o join_items(value.l)
    ELSE "[b]" \o title \o "[/b]: " \o str(value)

IsTimeMarker(t) == t \in {"time", "time_elapsed"}
IsElapsedMarker(t) == t = "time_elapsed"
KeepName(t) == ~IsTimeMarker(t)
KeepNameButTime(t) == ~IsElapsedMarker(t)

\* Faulty variant: only "time_elapsed" is filtered out.
time_to_print_KeepsTime(time_to_track) == SelectSeq(time_to_track, KeepNameButTime)

\* Lines 98-100 (time_to_track a list).
time_to_print(time_to_track) == SelectSeq(time_to_track, KeepName)

\* Lines 101-136 (index i here is index i-1 in the source).
renderables(a) ==
    << Panel(format_content(":book: Log Dir", StrV(a.experiment_dir))),
       Panel(format_content(":page_facing_up: Config", a.config_fname)),
       Panel(format_content(":watch: Time", ListV(time_to_print(a.time_to_track.l)))),
       Panel(format_content(":chart_with_downwards_trend: Stats", a.what_to_track)),
       Panel(format_content(":seedling: Seed ID", a.seed_id)),
       Panel(format_content(":chart_with_upwards_trend: Tensorboard", BoolV(a.use_tboard))),
       Panel(format_content(":rocket: Model", StrV(a.model_type))),
       Panel(format_content("Tracked ckpt Time", a.ckpt_time_to_track)),
       Panel(format_content(":clock1130: Every k-th ckpt", a.save_every_k_ckpt)),
       Panel(format_content(":trident: Top k ckpt", a.save_top_k_ckpt)),
       Panel(format_content("Top k-th metric", a.top_k_metric_name)),
       Panel(format_content("Top k-th minimization", a.top_k_minimize_metric)) >>

\* Faulty variant: renderables[5] (tensorboard) in place of renderables[6].
fixed_rows_Tboard(a) ==
    LET r == renderables(a)
    IN << <<r[1], r[2]>>, <<r[3], r[4]>>, <<r[5], r[6]>> >>

\* Lines 138-140.
fixed_rows(a) ==
    LET r == renderables(a)
    IN << <<r[1], r[2]>>, <<r[3], r[4]>>, <<r[5], r[7]>> >>

\* Faulty variant: the last branch is a plain else.
fourth_row_Always(a) ==
    LET r == renderables(a)
    IN IF a.save_every_k_ckpt = None /\ a.save_top_k_ckpt # None
       THEN << <<r[10]>> >>
       ELSE IF a.save_every_k_ckpt # None /\ a.save_top_k_ckpt = None
       THEN << <<r[9]>> >>
       ELSE << <<r[9], r[10]>> >>

\* Lines 141-150.
fourth_row(a) ==
    LET r == renderables(a)
    IN IF a.save_every_k_ckpt = None /\ a.save_top_k_ckpt # None
       THEN << <<r[10]>> >>
       ELSE IF a.save_every_k_ckpt # None /\ a.save_top_k_ckpt = None
       THEN << <<r[9]>> >>
       ELSE IF a.save_every_k_ckpt # None /\ a.save_top_k_ckpt # None
       THEN << <<r[9], r[10]>> >>
       ELSE <<>>

\* Iterating time_to_track (line 99) raises TypeError unless it is iterable.
startup_raises(a) == a.time_to_track.k # "list"

\* The list comprehension of lines 98-100 builds a new list; nothing in the
\* function assigns to, or calls a mutating method of, an argument.
startup_heap(a) == [time_to_track |-> a.time_to_track, what_to_track |-> a.what_to_track]

StartupGridColumns == <<[justify |-> "left"], [justify |-> "left"]>>

StartupArgs ==
    [experiment_dir : {"experiments/"},
     config_fname : {None, StrV("config.json")},
     time_to_track : {None} \cup {ListV(q) : q \in SeqUpTo(TimeNames, MaxLen)},
     what_to_track : {None} \cup {ListV(q) : q \in SeqUpTo(StatNames, MaxLen)},
     model_type : {"torch"},
     seed_id : {StrV("no_seed_provided")},
     use_tboard : BOOLEAN,
     reload : {FALSE},
     print_every_k_updates : {None},
     ckpt_time_to_track : {None, StrV("num_updates")},
     save_every_k_ckpt : {None, IntV(10)},
     save_top_k_ckpt : {None, IntV(5)},
     top_k_metric_name : {None, StrV("test_loss")},
     top_k_minimize_metric : {None, BoolV(TRUE)}]

print_startup ==
    /\ pc = "idle"
    /\ \E a \in StartupArgs :
         /\ args' = a
         /\ heap' = startup_heap(a)
         /\ IF startup_raises(a)
            THEN /\ raised' = TRUE
                 /\ renderable' = [type |-> "grid", columns |-> StartupGridColumns,
                                   rows |-> <<>>]
                 /\ terminal' = <<>>
            ELSE LET grid == [type |-> "grid", columns |-> StartupGridColumns,
                              rows |-> fixed_rows(a) \o fourth_row(a)]
                     panel == Panel(grid)
                 IN /\ raised' = FALSE
                    /\ renderable' = panel
                    /\ terminal' = <<ConsolePrint(console_width, panel, "default")>>
    /\ pc' = "returned"
    /\ op' = "print_startup"
    /\ UNCHANGED console_width

NextStartup == print_startup \/ Return
SpecStartup == Init /\ [][NextStartup]_vars

(***************************************************************************)
(* print_update (lines 156-224)                                            *)
(***************************************************************************)
\* Lines 179-193.
time_columns(time_to_print_) ==
    [i \in 1..Len(time_to_print_) |->
        IF i = 1
        THEN [header |-> ":watch: [red]" \o time_to_print_[i] \o "[/red]",
              style |-> "red", width |-> 14, justify |-> "left"]
        ELSE [header |-> "[red]" \o time_to_print_[i] \o "[/red]",
              style |-> "red", width |-> 12, justify |-> "center"]]

\* Lines 194-206.
stat_columns(what_to_print) ==
    [i \in 1..Len(what_to_print) |->
        IF i = 1
        THEN [header |-> ":chart_with_downwards_trend: [blue]" \o what_to_print[i] \o "[/blue]",
              style |-> "none", width |-> 14, justify |-> "center"]
        ELSE [header |-> "[blue]" \o what_to_print[i] \o "[/blue]",
              style |-> "none", width |-> 12, justify |-> "center"]]

\* Faulty variant: the two column loops in the other order.
update_columns_StatsFirst(a) == stat_columns(a.what_to_print) \o time_columns(a.time_to_print)

update_columns(a) == time_columns(a.time_to_print) \o stat_columns(a.what_to_print)

\* Round half to even at the third decimal, as numpy does it (scale by 10^3,
\* rint, scale back); n and the result count units of 10^-5.
round3(n) ==
    LET q == n \div 100
        r == n % 100
    IN 100 * (IF r > 50 \/ (r = 50 /\ q % 2 = 1) THEN q + 1 ELSE q)

\* np.round_(v, 3) of a value it accepts.
np_round_(v) == IF v.k = "float" THEN FloatV(round3(v.n)) ELSE v

\* Faulty variant: None is let through and shown as text.
stat_raises_Lenient(v) == v.k = "str"

\* np.round_(v, 3) raises TypeError for None and for text (line 216).
stat_raises(v) == v.k \notin {"int", "float"}

\* Lines 207-212.
row_list_time(a) ==
    [i \in 1..Len(a.time_to_print) |->
        IF a.time_to_print[i] \in DOMAIN a.c_tick
        THEN a.c_tick[a.time_to_print[i]]
        ELSE StrV("---")]

IsTracked(a, s) == s \in DOMAIN a.s_tick

\* Faulty variant: a missing stat name adds no cell.
row_list_stats_Skips(a) ==
    LET present == SelectSeq(a.what_to_print, LAMBDA s : IsTracked(a, s))
    IN [i \in 1..Len(present) |-> np_round_(a.s_tick[present[i]])]

\* Lines 213-218.
row_list_stats(a) ==
    [i \in 1..Len(a.what_to_print) |->
        IF a.what_to_print[i] \in DOMAIN a.s_tick
        THEN np_round_(a.s_tick[a.what_to_print[i]])
        ELSE StrV("---")]

\* Lines 219-220.
row_str_list(a) ==
    LET row_list == row_list_time(a) \o row_list_stats(a)
    IN [i \in 1..Len(row_list) |-> str(row_list[i])]

\* The loop of lines 214-218 reaches a value np.round_ rejects.
update_raises(a) ==
    \E i \in 1..Len(a.what_to_print) :
        /\ a.what_to_print[i] \in DOMAIN a.s_tick
        /\ stat_raises(a.s_tick[a.what_to_print[i]])

\* Dictionaries: functions from the keys they hold.
Dicts(keys, vals) ==
    UNION { {d \in [S -> UNION {vals[k] : k \in S}] : \A k \in S : d[k] \in vals[k]}
            : S \in SUBSET keys }

\* The values a tick holds under each key.
CTickKeys == {"time_elapsed", "num_updates"}
CTickVals == [key \in CTickKeys |->
                 IF key = "time_elapsed" THEN {StrV("00:01:05")} ELSE {IntV(10), None}]

STickVals == [key \in StatNames |->
                 IF key = "train_loss" THEN {FloatV(123456), None}
                 ELSE {FloatV(1250), StrV("nan")}]

UpdateArgs ==
    [time_to_print : SeqUpTo(TimeNames, MaxLen),
     what_to_print : SeqUpTo(StatNames, MaxLen),
     c_tick : Dicts(CTickKeys, CTickVals),
     s_tick : Dicts(StatNames, STickVals),
     print_header : BOOLEAN]

\* Nothing in print_update assigns to, or mutates, an argument.
update_heap(a) == [time_to_print |-> a.time_to_print, what_to_print |-> a.what_to_print,
                   c_tick |-> a.c_tick, s_tick |-> a.s_tick]

print_update ==
    /\ pc = "idle"
    /\ \E a \in UpdateArgs :
         LET table0 == add_columns(NewTable(a.print_header), update_columns(a))
         IN /\ args' = a
            /\ heap' = update_heap(a)
            /\ IF update_raises(a)
               THEN /\ raised' = TRUE
                    /\ renderable' = table0
                    /\ terminal' = <<>>
               ELSE LET table == add_row(table0, row_str_list(a))
                    IN /\ raised' = FALSE
                       /\ renderable' = table
                       /\ terminal' = <<ConsolePrint(console_width, table, "center")>>
    /\ pc' = "returned"
    /\ op' = "print_update"
    /\ UNCHANGED console_width

NextUpdate == print_update \/ Return
SpecUpdate == Init /\ [][NextUpdate]_vars

Next == print_welcome \/ print_startup \/ print_update \/ print_reload \/ print_storage \/ Return
Spec == Init /\ [][Next]_vars

NextStorage == print_storage \/ Return
SpecStorage == Init /\ [][NextStorage]_vars

(***************************************************************************)
(* Properties.                                                             *)
(***************************************************************************)
Called(name) == pc = "returned" /\ op = name

\* The panel is the one format_content labelled with this title.
HasTitle(panel, title) ==
    LET prefix == "[b]" \o title \o "[/b]: "
    IN /\ Len(panel.content) >= Len(prefix)
       /\ SubSeq(panel.content, 1, Len(prefix)) = prefix

GridCells(grid) ==
    UNION { {grid.rows[i][j] : j \in 1..Len(grid.rows[i])} : i \in 1..Len(grid.rows) }

PathFields == {"fig_path", "extra_path", "init_model_path", "final_model_path",
               "every_k_model_path", "top_k_model_path"}

PathLabel(f) ==
    CASE f = "fig_path" -> ":envelope_with_arrow: - Figure"
      [] f = "extra_path" -> ":envelope_with_arrow: - Extra"
      [] f \in {"init_model_path", "final_model_path"} -> ":envelope_with_arrow: - Model"
      [] f = "every_k_model_path" -> ":envelope_with_arrow: - Every-K"
      [] f = "top_k_model_path" -> ":envelope_with_arrow: - Top-K"

\* The path is present and the print_first gate lets it through.
Qualifies(a, f) ==
    /\ a[f] # None
    /\ f \in {"init_model_path", "final_model_path"} => a.print_first

\* C1: print_storage writes its table to the terminal exactly when some path
\* qualifies (fig/extra/every-k/top-k present, or init/final present with
\* print_first); otherwise it writes nothing at all.
C1_StorageEmitsIffRowQualifies ==
    Called("print_storage") =>
        /\ (terminal # <<>>) <=> (\E f \in PathFields : Qualifies(args, f))
        /\ terminal # <<>> => terminal = <<ConsolePrint(100, renderable, "left")>>

C1_Witness ==
    /\ Called("print_storage")
    /\ args.init_model_path # None
    /\ args.final_model_path # None
    /\ ~args.print_first
    /\ \A f \in PathFields \ {"init_model_path", "final_model_path"} : args[f] = None
    /\ terminal = <<>>

\* C2: the table of print_storage holds exactly one row per qualifying path:
\* as many rows as qualifying paths, each qualifying path has its row
\* (label, path), and every row is the row of a qualifying path.
C2_StorageOneRowPerQualifyingPath ==
    Called("print_storage") =>
        LET rows == renderable.rows
        IN /\ Len(rows) = Cardinality({f \in PathFields : Qualifies(args, f)})
           /\ \A f \in PathFields :
                Qualifies(args, f) =>
                    \E i \in 1..Len(rows) : rows[i] = <<PathLabel(f), args[f].s>>
           /\ \A i \in 1..Len(rows) :
                \E f \in PathFields :
                    Qualifies(args, f) /\ rows[i] = <<PathLabel(f), args[f].s>>

C2_Witness ==
    /\ Called("print_storage")
    /\ args.fig_path = StrV("figures/fig_1.png")
    /\ \A f \in PathFields \ {"fig_path"} : args[f] = None
    /\ Len(terminal) = 1
    /\ terminal[1].obj.rows = << <<":envelope_with_arrow: - Figure", "figures/fig_1.png">> >>

\* A requested stat name whose value np.round_ cannot round.
NonNumericStat(a, j) ==
    /\ a.what_to_print[j] \in DOMAIN a.s_tick
    /\ a.s_tick[a.what_to_print[j]].k \in {"NoneType", "str"}

HasNonNumericStat(a) == \E j \in 1..Len(a.what_to_print) : NonNumericStat(a, j)

\* C3: a print_update call adds len(time_to_print) + len(what_to_print)
\* columns; when it completes, its single data row has as many cells, with
\* "---" at the position of every requested name missing from c_tick or
\* s_tick; and a missing name never makes the call raise.
C3_UpdateRowLengthAndPlaceholders ==
    Called("print_update") =>
        LET a == args
            nt == Len(a.time_to_print)
            ns == Len(a.what_to_print)
        IN /\ Len(renderable.columns) = nt + ns
           /\ raised => HasNonNumericStat(a)
           /\ ~raised =>
                /\ Len(renderable.rows) = 1
                /\ Len(renderable.rows[1]) = nt + ns
                /\ \A i \in 1..nt :
                     a.time_to_print[i] \notin DOMAIN a.c_tick
                         => renderable.rows[1][i] = "---"
                /\ \A j \in 1..ns :
                     a.what_to_print[j] \notin DOMAIN a.s_tick
                         => renderable.rows[1][nt + j] = "---"

C3_Witness ==
    /\ Called("print_update")
    /\ ~raised
    /\ args.time_to_print = <<"num_updates", "time">>
    /\ args.what_to_print = <<"train_loss", "test_loss">>
    /\ DOMAIN args.c_tick = {"num_updates"}
    /\ DOMAIN args.s_tick = {"train_loss"}
    /\ terminal[1].obj.rows = << <<"10", "---", "1.235", "---">> >>

\* C4: the grid of a completed print_startup call has a fourth row exactly
\* when save_every_k_ckpt or save_top_k_ckpt is set: the top-k panel alone,
\* the every-k panel alone, or every-k left and top-k right; with neither
\* set the grid has exactly three rows.
C4_StartupFourthRow ==
    (Called("print_startup") /\ ~raised) =>
        LET rows == renderable.content.rows
            every == "[b]:clock1130: Every k-th ckpt[/b]: " \o str(args.save_every_k_ckpt)
            top == "[b]:trident: Top k ckpt[/b]: " \o str(args.save_top_k_ckpt)
        IN /\ (args.save_every_k_ckpt = None /\ args.save_top_k_ckpt = None)
                => Len(rows) = 3
           /\ (args.save_every_k_ckpt = None /\ args.save_top_k_ckpt # None)
                => Len(rows) = 4 /\ rows[4] = <<Panel(top)>>
           /\ (args.save_every_k_ckpt # None /\ args.save_top_k_ckpt = None)
                => Len(rows) = 4 /\ rows[4] = <<Panel(every)>>
           /\ (args.save_every_k_ckpt # None /\ args.save_top_k_ckpt # None)
                => Len(rows) = 4 /\ rows[4] = <<Panel(every), Panel(top)>>

C4_Witness ==
    /\ Called("print_startup")
    /\ ~raised
    /\ args.save_every_k_ckpt = IntV(10)
    /\ args.save_top_k_ckpt = None
    /\ Len(terminal) = 1
    /\ Len(terminal[1].obj.content.rows) = 4
    /\ terminal[1].obj.content.rows[4] = <<Panel("[b]:clock1130: Every k-th ckpt[/b]: 10")>>

OptionalFields == {"config_fname", "time_to_track", "what_to_track", "ckpt_time_to_track",
                   "save_every_k_ckpt", "save_top_k_ckpt", "top_k_metric_name",
                   "top_k_minimize_metric"}

FieldTitle(f) ==
    CASE f = "config_fname" -> ":page_facing_up: Config"
      [] f = "time_to_track" -> ":watch: Time"
      [] f = "what_to_track" -> ":chart_with_downwards_trend: Stats"
      [] f = "ckpt_time_to_track" -> "Tracked ckpt Time"
      [] f = "save_every_k_ckpt" -> ":clock1130: Every k-th ckpt"
      [] f = "save_top_k_ckpt" -> ":trident: Top k ckpt"
      [] f = "top_k_metric_name" -> "Top k-th metric"
      [] f = "top_k_minimize_metric" -> "Top k-th minimization"

\* C5: for every optional field of print_startup, passing None makes the
\* call complete without raising and leaves no panel referring to that field
\* in the output.
C5_StartupNoneFieldOmitted ==
    Called("print_startup") =>
        /\ ~raised
        /\ \A f \in OptionalFields :
             args[f] = None =>
                 \A cell \in GridCells(renderable.content) : ~HasTitle(cell, FieldTitle(f))

\* The text print_update shows for the i-th requested name of the call.
ExpectedCell(a, i) ==
    LET nt == Len(a.time_to_print)
    IN IF i <= nt
       THEN IF a.time_to_print[i] \in DOMAIN a.c_tick
            THEN str(a.c_tick[a.time_to_print[i]])
            ELSE "---"
       ELSE IF a.what_to_print[i - nt] \in DOMAIN a.s_tick
            THEN str(np_round_(a.s_tick[a.what_to_print[i - nt]]))
            ELSE "---"

\* C6: print_update lays columns and cells out in the same order: one column
\* per entry of time_to_print, then one per entry of what_to_print; column i
\* is headed by the i-th requested name and cell i holds that name's value or
\* the placeholder; the first column of each group carries the marker and
\* width 14, the later ones no marker and width 12.
C6_UpdateColumnAndCellOrder ==
    Called("print_update") =>
        LET a == args
            nt == Len(a.time_to_print)
            ns == Len(a.what_to_print)
            cols == renderable.columns
        IN /\ Len(cols) = nt + ns
           /\ \A i \in 1..nt :
                /\ cols[i].header = (IF i = 1 THEN ":watch: " ELSE "")
                                    \o "[red]" \o a.time_to_print[i] \o "[/red]"
                /\ cols[i].width = IF i = 1 THEN 14 ELSE 12
           /\ \A j \in 1..ns :
                /\ cols[nt + j].header =
                       (IF j = 1 THEN ":chart_with_downwards_trend: " ELSE "")
                       \o "[blue]" \o a.what_to_print[j] \o "[/blue]"
                /\ cols[nt + j].width = IF j = 1 THEN 14 ELSE 12
           /\ ~raised =>
                /\ Len(renderable.rows[1]) = nt + ns
                /\ \A i \in 1..(nt + ns) : renderable.rows[1][i] = ExpectedCell(a, i)

C6_Witness ==
    /\ Called("print_update")
    /\ ~raised
    /\ args.time_to_print = <<"time_elapsed", "num_updates">>
    /\ args.what_to_print = <<"test_loss", "train_loss">>
    /\ DOMAIN args.c_tick = {"time_elapsed", "num_updates"}
    /\ args.c_tick["num_updates"] = IntV(10)
    /\ DOMAIN args.s_tick = {"train_loss", "test_loss"}
    /\ [i \in 1..4 |-> terminal[1].obj.columns[i].width] = <<14, 12, 14, 12>>
    /\ terminal[1].obj.columns[2].header = "[red]num_updates[/red]"
    /\ terminal[1].obj.columns[3].header = ":chart_with_downwards_trend: [blue]test_loss[/blue]"
    /\ terminal[1].obj.rows = << <<"00:01:05", "10", "0.012", "1.235">> >>

RECURSIVE WithoutTimeMarkers(_)
\* q with every "time" and "time_elapsed" removed, the rest in order.
WithoutTimeMarkers(q) ==
    IF q = <<>> THEN <<>>
    ELSE IF Head(q) = "time" \/ Head(q) = "time_elapsed"
         THEN WithoutTimeMarkers(Tail(q))
         ELSE <<Head(q)>> \o WithoutTimeMarkers(Tail(q))

RECURSIVE CommaJoined(_)
CommaJoined(q) ==
    IF q = <<>> THEN ""
    ELSE IF Len(q) = 1 THEN q[1]
    ELSE q[1] \o ", " \o CommaJoined(Tail(q))

\* C7: the time panel of a completed print_startup call lists time_to_track
\* with every "time" and "time_elapsed" removed and all other names (and
\* their duplicates) in their original order; the caller's list is left as
\* it was passed.
C7_StartupTimeNamesFiltered ==
    (Called("print_startup") /\ ~raised) =>
        /\ renderable.content.rows[2][1] =
               Panel("[b]:watch: Time[/b]: "
                     \o CommaJoined(WithoutTimeMarkers(args.time_to_track.l)))
        /\ heap.time_to_track = args.time_to_track

C7_Witness ==
    /\ Called("print_startup")
    /\ ~raised
    /\ args.time_to_track = ListV(<<"time_elapsed", "num_updates">>)
    /\ heap.time_to_track = ListV(<<"time_elapsed", "num_updates">>)
    /\ terminal[1].obj.content.rows[2][1] = Panel("[b]:watch: Time[/b]: num_updates")

SuppressedTitles == {":chart_with_upwards_trend: Tensorboard", "Tracked ckpt Time",
                     "Top k-th metric", "Top k-th minimization"}

\* C8: in the grid of every completed print_startup call the first three
\* rows are (log dir, config), (time vars, stat vars), (seed, model type) in
\* that order, and no row holds the tensorboard, checkpoint-time, top-k
\* metric or top-k minimize panel, whatever those fields are.
C8_StartupFixedRowsAndSuppressedPanels ==
    (Called("print_startup") /\ ~raised) =>
        LET rows == renderable.content.rows
        IN /\ Len(rows) >= 3
           /\ \A i \in 1..3 : Len(rows[i]) = 2
           /\ HasTitle(rows[1][1], ":book: Log Dir")
           /\ HasTitle(rows[1][2], ":page_facing_up: Config")
           /\ HasTitle(rows[2][1], ":watch: Time")
           /\ HasTitle(rows[2][2], ":chart_with_downwards_trend: Stats")
           /\ HasTitle(rows[3][1], ":seedling: Seed ID")
           /\ HasTitle(rows[3][2], ":rocket: Model")
           /\ \A cell \in GridCells(renderable.content) :
                \A t \in SuppressedTitles : ~HasTitle(cell, t)

C8_Witness ==
    /\ Called("print_startup")
    /\ ~raised
    /\ args.use_tboard
    /\ args.ckpt_time_to_track # None
    /\ args.top_k_metric_name # None
    /\ args.top_k_minimize_metric # None
    /\ args.save_every_k_ckpt # None
    /\ args.save_top_k_ckpt # None
    /\ Len(terminal) = 1
    /\ terminal[1].obj.content.rows[3] =
           <<Panel("[b]:seedling: Seed ID[/b]: no_seed_provided"),
             Panel("[b]:rocket: Model[/b]: torch")>>

\* C9: when a requested stat name is present in s_tick with a value that is
\* None or text, print_update raises and writes nothing to the terminal, not
\* even a partial table; without such a stat value the call completes,
\* whatever the types of the time values.
C9_UpdateNonNumericStatRaises ==
    Called("print_update") =>
        /\ HasNonNumericStat(args) => (raised /\ terminal = <<>>)
        /\ ~HasNonNumericStat(args) => (~raised /\ Len(terminal) = 1)

C9_Witness ==
    /\ Called("print_update")
    /\ args.time_to_print = <<"num_updates">>
    /\ args.what_to_print = <<"test_loss", "train_loss">>
    /\ "num_updates" \in DOMAIN args.c_tick
    /\ "train_loss" \in DOMAIN args.s_tick
    /\ args.s_tick["train_loss"] = None
    /\ "test_loss" \in DOMAIN args.s_tick
    /\ args.s_tick["test_loss"] = FloatV(1250)
    /\ raised
    /\ Len(renderable.columns) = 3
    /\ terminal = <<>>

\* C10: over any sequence of calls console_width stays 100, no call writes
\* more than one item to the terminal, between calls nothing but
\* console_width is left, and a completed print_update call writes a table
\* whose only data row is the row of that call's arguments.
C10_NoStateCarriedBetweenCalls ==
    /\ console_width = 100
    /\ Len(terminal) <= 1
    /\ \A i \in 1..Len(terminal) :
         terminal[i].kind = "print" => terminal[i].width = 100
    /\ (Called("print_update") /\ ~raised) =>
         /\ Len(terminal) = 1
         /\ terminal[1].obj.show_header = args.print_header
         /\ terminal[1].obj.rows =
                << [i \in 1..(Len(args.time_to_print) + Len(args.what_to_print))
                       |-> ExpectedCell(args, i)] >>

C10_Witness ==
    /\ Called("print_update")
    /\ ~raised
    /\ args.time_to_print = <<"num_updates">>
    /\ args.what_to_print = <<"train_loss">>
    /\ console_width = 100
    /\ terminal[1].width = 100
    /\ terminal[1].obj.rows = << <<"None", "1.235">> >>

====
